---- MODULE Spec2Model ----
(***************************************************************************)
(* Model of the task registry of src/main.py (task_manager_api v1.3.0):    *)
(* one SQL table "tasks" and three request handlers (list_tasks,           *)
(* create_task, complete_task) that FastAPI runs on worker threads, each   *)
(* request with its own database session.                                  *)
(*                                                                         *)
(* Steps of different requests interleave at the database round trips.     *)
(* A step is one round trip that another request can affect or observe     *)
(* (the first SELECT of a handler, a COMMIT, a refresh) together with the  *)
(* thread-local code before it.  Two kinds of read are taken together with *)
(* the round trip that follows them, because no row is ever deleted and a  *)
(* read that finds an id stored would find it stored at any later time:    *)
(* the probes of one _generate_unique_pid call, and the rejected INSERT     *)
(* that precedes the recursive create_task call.                           *)
(*                                                                         *)
(* An Optional value is a sequence of length at most one: << >> is None.   *)
(***************************************************************************)
EXTENDS Integers, Sequences, FiniteSets

\* ---------------------------------------------------------------- bounds
NumProcs == 2       \* worker threads serving requests concurrently
MaxClock == 1       \* datetime.utcnow() ranges over 0..MaxClock
MaxRequests == 3    \* requests the clients send in one run

\* ------------------------------------------------------ program constants
PID_MIN == 1000
PID_MAX == 99999
max_attempts == 5
DefaultPriority == 3
PriorityMin == 0
PriorityMax == 5

Procs == 1..NumProcs

None == << >>
Some(v) == << v >>

\* TaskStatus
running   == "running"
completed == "completed"
TaskStatus == {running, completed}

\* The integers ids are drawn from: the two ends of the legal range and the
\* integers just outside it.
IntSample == {PID_MIN - 1, PID_MIN, PID_MAX, PID_MAX + 1}

\* random.randint(a, b): any integer n with a <= n <= b.
RandIntOffByOne(a, b) == {n \in IntSample : a - 1 <= n /\ n <= b + 1}
RandInt(a, b) == {n \in IntSample : a <= n /\ n <= b}

\* Request bodies of POST /tasks; a missing field is None.
Bodies ==
  { [name |-> Some("Backup"), priority |-> None, owner |-> Some("admin"),
     command |-> Some("rsync")],
    [name |-> Some(""), priority |-> Some(0), owner |-> Some("bob"),
     command |-> Some("ls")],
    [name |-> Some("Backup"), priority |-> Some(9), owner |-> Some("admin"),
     command |-> Some("rsync")],
    [name |-> Some("Backup"), priority |-> Some(-1), owner |-> Some("admin"),
     command |-> Some("rsync")],
    [name |-> Some("Backup"), priority |-> Some(5), owner |-> None,
     command |-> Some("rsync")] }

\* Path parameters of PATCH /tasks/{task_id}; query parameters of GET /tasks.
TaskIdArgs == {PID_MIN, PID_MAX, PID_MAX + 1}
StatusArgs == {None} \cup {Some(s) : s \in TaskStatus \cup {"failed"}}

VARIABLES
  table,      \* the rows of "tasks", in insertion order
  clock,      \* the latest value datetime.utcnow() returned
  served,     \* the number of requests accepted so far
  pc,         \* where each worker's request stands
  req,        \* the request a worker is serving
  session,    \* the worker's database session: "open" or "closed"
  pid,        \* create_task: the pid returned by _generate_unique_pid
  retries,    \* create_task: depth of the recursion on IntegrityError
  now,        \* complete_task: the value assigned to task.updated_at
  out,        \* the response the last step sent, with the request it answers
  counting,   \* whether the run keeps the history variable draws
  draws,      \* history: ids drawn on behalf of the current create request
  created,    \* history: per id, the number of 201 responses carrying it
  writes,     \* history: per id, the number of completion UPDATEs committed
  oks         \* history: per id, the number of 200 responses of complete_task

vars == << table, clock, served, counting, pc, req, session, pid, retries, now, out,
           draws, created, writes, oks >>

locals == << pid, retries, now, draws >>
hist   == << counting, created, writes, oks >>

NoReq == [kind |-> "none"]
NoOut == [to |-> 0, req |-> NoReq, code |-> 0, detail |-> "", rows |-> << >>]

\* ------------------------------------------------------------- the store

\* db.query(Task).filter(Task.id == id).first()
RowsById(t, id) == SelectSeq(t, LAMBDA r : r.id = id)
First(rows) == IF rows = << >> THEN None ELSE Some(Head(rows))
QueryUnfiltered(t, id) == First(t)
QueryById(t, id) == First(RowsById(t, id))

\* Column(Integer, primary_key=True): the store rejects an INSERT whose id
\* is already the id of a row.
PrimaryKeyNotEnforced(t, id) == FALSE
PrimaryKeyViolation(t, id) == \E i \in DOMAIN t : t[i].id = id

\* datetime.utcnow(): not before the latest value it returned.
Utcnow == clock..MaxClock

\* TaskCreate: name, owner, command required; priority optional, ge=0, le=5.
ValidNoLowerBound(b) ==
  /\ b.name # None /\ b.owner # None /\ b.command # None
  /\ b.priority # None => b.priority[1] <= PriorityMax
Valid(b) ==
  /\ b.name # None /\ b.owner # None /\ b.command # None
  /\ b.priority # None => (PriorityMin <= b.priority[1] /\ b.priority[1] <= PriorityMax)

\* Task(id=pid, name=..., priority=..., owner=..., command=..., status=running)
\* with the column defaults applied at INSERT time t.
NewTaskNoDefault(p, b, t) ==
  [id |-> p, name |-> b.name[1],
   priority |-> IF b.priority = None THEN PriorityMin ELSE b.priority[1],
   owner |-> b.owner[1], command |-> b.command[1], status |-> running,
   created_at |-> t, updated_at |-> None]
NewTask(p, b, t) ==
  [id |-> p, name |-> b.name[1],
   priority |-> IF b.priority = None THEN DefaultPriority ELSE b.priority[1],
   owner |-> b.owner[1], command |-> b.command[1], status |-> running,
   created_at |-> t, updated_at |-> None]

\* ------------------------------------------------------------ responses

TaskOut(code, row) == [code |-> code, detail |-> "", rows |-> << row >>]
ListOut(rows) == [code |-> 200, detail |-> "", rows |-> rows]
HTTPException(code, detail) == [code |-> code, detail |-> detail, rows |-> << >>]

RespondWithoutClose(p, r, a) ==
  /\ out' = [to |-> p, req |-> r, code |-> a.code, detail |-> a.detail,
             rows |-> a.rows]
  /\ pc' = [pc EXCEPT ![p] = "idle"]
  /\ session' = session
  /\ req' = [req EXCEPT ![p] = NoReq]
  /\ pid' = [pid EXCEPT ![p] = 0]
  /\ retries' = [retries EXCEPT ![p] = 0]
  /\ now' = [now EXCEPT ![p] = 0]
  /\ draws' = [draws EXCEPT ![p] = 0]

\* The handler of request r returns or raises: the response goes out to
\* p's client, get_db's finally closes the session and the locals are gone.
Respond(p, r, a) ==
  /\ out' = [to |-> p, req |-> r, code |-> a.code, detail |-> a.detail,
             rows |-> a.rows]
  /\ pc' = [pc EXCEPT ![p] = "idle"]
  /\ session' = [session EXCEPT ![p] = "closed"]
  /\ req' = [req EXCEPT ![p] = NoReq]
  /\ pid' = [pid EXCEPT ![p] = 0]
  /\ retries' = [retries EXCEPT ![p] = 0]
  /\ now' = [now EXCEPT ![p] = 0]
  /\ draws' = [draws EXCEPT ![p] = 0]

\* The handler of request r goes on to program point next.
Continue(p, r, next) ==
  /\ out' = NoOut
  /\ pc' = [pc EXCEPT ![p] = next]
  /\ session' = [session EXCEPT ![p] = "open"]
  /\ req' = [req EXCEPT ![p] = r]

InitStore ==
  /\ table = << >>
  /\ clock = 0
  /\ served = 0
  /\ pc = [p \in Procs |-> "idle"]
  /\ req = [p \in Procs |-> NoReq]
  /\ session = [p \in Procs |-> "closed"]
  /\ pid = [p \in Procs |-> 0]
  /\ retries = [p \in Procs |-> 0]
  /\ now = [p \in Procs |-> 0]
  /\ out = NoOut
  /\ draws = [p \in Procs |-> 0]
  /\ created = [i \in IntSample |-> 0]
  /\ writes = [i \in IntSample |-> 0]
  /\ oks = [i \in IntSample |-> 0]

Init == InitStore /\ counting = FALSE
InitCounting == InitStore /\ counting = TRUE

\* A request arrives and goes to the first idle worker, where get_db opens
\* its session.
Accept(p) ==
  /\ pc[p] = "idle"
  /\ \A q \in Procs : q < p => pc[q] # "idle"
  /\ served < MaxRequests
  /\ served' = served + 1

\* --------------------------------------------------- POST /tasks

\* _generate_unique_pid(db, max_attempts) against the table t: the outcomes
\* of the for loop with left iterations to go.  Each iteration draws a
\* candidate and probes the table; the first candidate that is not stored is
\* returned, and the loop running out raises HTTPException 500.
RECURSIVE GenerateOneMoreDraw(_, _)
GenerateOneMoreDraw(t, left) ==
  IF left < 0
    THEN {[ok |-> FALSE, pid |-> 0, draws |-> 0]}
    ELSE LET rest == GenerateOneMoreDraw(t, left - 1) IN
           UNION { IF QueryById(t, cand) = None
                     THEN {[ok |-> TRUE, pid |-> cand, draws |-> 1]}
                     ELSE {[o EXCEPT !.draws = @ + 1] : o \in rest}
                   : cand \in RandInt(PID_MIN, PID_MAX) }

RECURSIVE GenerateUniquePid(_, _)
GenerateUniquePid(t, left) ==
  IF left = 0
    THEN {[ok |-> FALSE, pid |-> 0, draws |-> 0]}
    ELSE LET rest == GenerateUniquePid(t, left - 1) IN
           UNION { IF QueryById(t, cand) = None
                     THEN {[ok |-> TRUE, pid |-> cand, draws |-> 1]}
                     ELSE {[o EXCEPT !.draws = @ + 1] : o \in rest}
                   : cand \in RandInt(PID_MIN, PID_MAX) }

\* create_task(task, db) up to the commit: pid = _generate_unique_pid(db)
\* and new_task = Task(id=pid, ...).
EnterCreateTask(p, r) ==
  \E o \in GenerateUniquePid(table, max_attempts) :
    IF o.ok
      THEN /\ Continue(p, r, "insert")
           /\ pid' = [pid EXCEPT ![p] = o.pid]
           /\ draws' = [draws EXCEPT ![p] = IF counting THEN @ + o.draws ELSE @]
           /\ UNCHANGED now
      ELSE Respond(p, r, HTTPException(500, "Unable to allocate unique PID"))

\* POST /tasks arrives: 422 for a body TaskCreate rejects, else create_task
\* runs up to its commit.
PostTasks(p) ==
  /\ Accept(p)
  /\ \E b \in Bodies :
       LET r == [kind |-> "create", body |-> b] IN
         IF Valid(b)
           THEN EnterCreateTask(p, r) /\ (pc'[p] = "insert" => UNCHANGED retries)
           ELSE Respond(p, r, HTTPException(422, "validation error"))
  /\ UNCHANGED << table, clock, hist >>

\* create_task: db.add(new_task); db.commit() succeeds, created_at taking
\* its default datetime.utcnow().
InsertCommit(p) ==
  /\ pc[p] = "insert"
  /\ ~PrimaryKeyViolation(table, pid[p])
  /\ \E t \in Utcnow :
       /\ clock' = t
       /\ table' = Append(table, NewTask(pid[p], req[p].body, t))
  /\ pc' = [pc EXCEPT ![p] = "refresh"]
  /\ out' = NoOut
  /\ UNCHANGED << served, req, session, locals, hist >>

\* create_task: the commit raises IntegrityError; db.rollback() and
\* return create_task(task, db), which runs up to its commit.
InsertRejected(p) ==
  /\ pc[p] = "insert"
  /\ PrimaryKeyViolation(table, pid[p])
  /\ EnterCreateTask(p, req[p])
  /\ pc'[p] = "insert" => retries' = [retries EXCEPT ![p] = @ + 1]
  /\ UNCHANGED << table, clock, served, hist >>

\* create_task: the commit raises another SQLAlchemyError (the store is
\* locked, the disk is full): db_exception_handler answers 500.
InsertFails(p) ==
  /\ pc[p] = "insert"
  /\ Respond(p, req[p], HTTPException(500, "Database error"))
  /\ UNCHANGED << table, clock, served, hist >>

\* create_task: db.refresh(new_task); return new_task.
CreateRefresh(p) ==
  /\ pc[p] = "refresh"
  /\ Respond(p, req[p], TaskOut(201, QueryById(table, pid[p])[1]))
  /\ created' = [created EXCEPT ![pid[p]] = @ + 1]
  /\ UNCHANGED << table, clock, served, counting, writes, oks >>

\* --------------------------------------------------- PATCH /tasks/{task_id}

\* task.status == TaskStatus.completed.value
NeverCompleted(task) == FALSE
AlreadyCompleted(task) == task.status = completed

\* task.status = completed; task.updated_at = at, flushed as
\* UPDATE tasks SET status=?, updated_at=? WHERE tasks.id = ?
ToggleStatus(t, id, at) ==
  [i \in DOMAIN t |->
     IF t[i].id = id
       THEN [t[i] EXCEPT !.status = IF @ = completed THEN running ELSE completed,
                         !.updated_at = Some(at)]
       ELSE t[i]]
UpdateEveryRow(t, id, at) ==
  [i \in DOMAIN t |-> [t[i] EXCEPT !.status = completed, !.updated_at = Some(at)]]
UpdateResetsCreatedAt(t, id, at) ==
  [i \in DOMAIN t |->
     IF t[i].id = id
       THEN [t[i] EXCEPT !.status = completed, !.updated_at = Some(at),
                         !.created_at = at]
       ELSE t[i]]
UpdateStatusOnly(t, id, at) ==
  [i \in DOMAIN t |->
     IF t[i].id = id THEN [t[i] EXCEPT !.status = completed] ELSE t[i]]
UpdateCompleted(t, id, at) ==
  [i \in DOMAIN t |->
     IF t[i].id = id
       THEN [t[i] EXCEPT !.status = completed, !.updated_at = Some(at)]
       ELSE t[i]]

\* PATCH /tasks/{task_id} arrives: complete_task up to its commit, that is
\* the SELECT, the 404 and 409 exits, task.status = completed and
\* task.updated_at = datetime.utcnow().
PatchTask(p) ==
  /\ Accept(p)
  /\ \E tid \in TaskIdArgs :
       LET r == [kind |-> "complete", task_id |-> tid]
           task == QueryById(table, tid)
       IN IF task = None
            THEN Respond(p, r, HTTPException(404, "Task not found")) /\ UNCHANGED clock
            ELSE IF AlreadyCompleted(task[1])
              THEN Respond(p, r, HTTPException(409, "Task already completed"))
                   /\ UNCHANGED clock
              ELSE /\ Continue(p, r, "update")
                   /\ \E t \in Utcnow :
                        /\ clock' = t
                        /\ now' = [now EXCEPT ![p] = t]
                   /\ UNCHANGED << pid, retries, draws >>
  /\ UNCHANGED << table, hist >>

\* complete_task: db.commit() succeeds.
UpdateCommit(p) ==
  /\ pc[p] = "update"
  /\ table' = UpdateCompleted(table, req[p].task_id, now[p])
  /\ writes' = [writes EXCEPT ![req[p].task_id] = @ + 1]
  /\ pc' = [pc EXCEPT ![p] = "reload"]
  /\ out' = NoOut
  /\ UNCHANGED << clock, served, req, session, locals, counting, created, oks >>

UpdateFailsHalfApplied(p) ==
  /\ pc[p] = "update"
  /\ Respond(p, req[p], HTTPException(500, "Database error"))
  /\ table' = [i \in DOMAIN table |->
                 IF table[i].id = req[p].task_id
                   THEN [table[i] EXCEPT !.status = completed]
                   ELSE table[i]]
  /\ UNCHANGED << clock, served, hist >>

\* complete_task: the commit raises a SQLAlchemyError: 500, and the
\* session is closed without the UPDATE having been committed.
UpdateFails(p) ==
  /\ pc[p] = "update"
  /\ Respond(p, req[p], HTTPException(500, "Database error"))
  /\ UNCHANGED << table, clock, served, hist >>

\* complete_task: db.refresh(task); return task.
CompleteRefresh(p) ==
  /\ pc[p] = "reload"
  /\ Respond(p, req[p], TaskOut(200, QueryById(table, req[p].task_id)[1]))
  /\ oks' = [oks EXCEPT ![req[p].task_id] = @ + 1]
  /\ UNCHANGED << table, clock, served, counting, created, writes >>

\* --------------------------------------------------- GET /tasks

\* query.filter(Task.status == status.value), or the unfiltered query.
FilterOtherStatus(t, f) ==
  IF f = None THEN t ELSE SelectSeq(t, LAMBDA r : r.status # f[1])
FilterStatus(t, f) ==
  IF f = None THEN t ELSE SelectSeq(t, LAMBDA r : r.status = f[1])

\* The sequence rows without its i-th element.
Without(rows, i) == SubSeq(rows, 1, i - 1) \o SubSeq(rows, i + 1, Len(rows))

\* query.order_by(Task.created_at.desc()).all(): the rows in any order the
\* ORDER BY allows (rows of equal created_at come in either order).
RECURSIVE OrderByCreatedAtAsc(_)
OrderByCreatedAtAsc(rows) ==
  IF rows = << >>
    THEN {<< >>}
    ELSE UNION { {<< rows[i] >> \o rest : rest \in OrderByCreatedAtAsc(Without(rows, i))}
                 : i \in {k \in DOMAIN rows :
                            \A j \in DOMAIN rows : rows[k].created_at <= rows[j].created_at} }
RECURSIVE OrderByCreatedAtDesc(_)
OrderByCreatedAtDesc(rows) ==
  IF rows = << >>
    THEN {<< >>}
    ELSE UNION { {<< rows[i] >> \o rest : rest \in OrderByCreatedAtDesc(Without(rows, i))}
                 : i \in {k \in DOMAIN rows :
                            \A j \in DOMAIN rows : rows[k].created_at >= rows[j].created_at} }

\* GET /tasks arrives: 422 for a status outside TaskStatus, else list_tasks
\* and its one SELECT.
GetTasks(p) ==
  /\ Accept(p)
  /\ \E f \in StatusArgs :
       LET r == [kind |-> "list", status |-> f] IN
         IF f # None /\ f[1] \notin TaskStatus
           THEN Respond(p, r, HTTPException(422, "validation error"))
           ELSE \E rows \in OrderByCreatedAtDesc(FilterStatus(table, f)) :
                  Respond(p, r, ListOut(rows))
  /\ UNCHANGED << table, clock, hist >>

Next ==
  \/ \E p \in Procs : PostTasks(p)
  \/ \E p \in Procs : InsertCommit(p)
  \/ \E p \in Procs : InsertRejected(p)
  \/ \E p \in Procs : InsertFails(p)
  \/ \E p \in Procs : CreateRefresh(p)
  \/ \E p \in Procs : PatchTask(p)
  \/ \E p \in Procs : UpdateCommit(p)
  \/ \E p \in Procs : UpdateFails(p)
  \/ \E p \in Procs : CompleteRefresh(p)
  \/ \E p \in Procs : GetTasks(p)

Spec == Init /\ [][Next]_vars

\* The same program, with the ids drawn for each create request counted.
SpecCounting == InitCounting /\ [][Next]_vars

\* ------------------------------------------------------------ properties

Stored(t, id) == \E i \in DOMAIN t : t[i].id = id

\* The step in which a request arrives and is answered at once with out'.
Answered(kind) == served' = served + 1 /\ out'.req.kind = kind

\* The step in which PATCH /tasks/{tid} arrives at worker p.
PatchArrives(p, tid) ==
  /\ pc[p] = "idle"
  /\ \/ pc'[p] = "update" /\ req'[p].task_id = tid
     \/ Answered("complete") /\ out'.to = p /\ out'.req.task_id = tid

\* The steps of create_task at worker p: the commit that succeeds, the
\* commit that is refused or fails, the refresh.
Inserted(p) == pc[p] = "insert" /\ pc'[p] = "refresh"
NotInserted(p) ==
  pc[p] = "insert" /\ (pc'[p] = "idle" \/ retries'[p] # retries[p])
Refreshed(p) == pc[p] = "refresh" /\ pc'[p] = "idle"

\* C1: no two rows of the table share an id, and no two 201 responses of
\* create_task carry the same id.
C1_UniqueIds ==
  /\ \A i, j \in DOMAIN table : i # j => table[i].id # table[j].id
  /\ \A id \in IntSample : created[id] <= 1
C1_Witness ==
  /\ Len(table) = 2
  /\ \A i \in DOMAIN table : created[table[i].id] = 1

\* C2: an INSERT of an id that is already stored is rejected and leaves the
\* table as it is, the rejected request goes on with a newly allocated id
\* that is not stored (or ends with 500), and the retries are bounded: a
\* request that was rejected still draws no more ids than the allocator's
\* max_attempts.
C2_RejectedInsertBoundedRetry ==
  /\ [][\A p \in Procs :
          NotInserted(p) /\ Stored(table, pid[p])
            => /\ table' = table
               /\ \/ /\ pc'[p] = "insert"
                     /\ retries'[p] = retries[p] + 1
                     /\ ~Stored(table, pid'[p])
                  \/ out'.to = p /\ out'.code = 500]_vars
  /\ [](\A p \in Procs : retries[p] >= 1 => draws[p] <= max_attempts)

\* C3: a task whose status is completed has status completed after every step.
C3_CompletedStable ==
  [][\A i \in DOMAIN table :
       table[i].status = "completed"
         => /\ Stored(table', table[i].id)
            /\ \A j \in DOMAIN table' :
                 table'[j].id = table[i].id => table'[j].status = "completed"]_vars
C3_Witness ==
  \E i \in DOMAIN table : table[i].status = "completed" /\ writes[table[i].id] >= 2

\* C4: per task, at most one complete request commits the write of status
\* and updated_at, and at most one answers 200.
C4_AtMostOneTransition ==
  \A id \in IntSample : writes[id] <= 1 /\ oks[id] <= 1

\* C5: a complete request that finds its task completed answers 409
\* "Task already completed" and leaves the whole table unchanged.
C5_Conflict ==
  [][\A p \in Procs : \A tid \in TaskIdArgs :
       /\ PatchArrives(p, tid)
       /\ \E i \in DOMAIN table : table[i].id = tid /\ table[i].status = "completed"
       => /\ out'.to = p
          /\ out'.code = 409
          /\ out'.detail = "Task already completed"
          /\ table' = table]_vars
C5_Witness ==
  /\ out.code = 409
  /\ \E i \in DOMAIN table :
       /\ table[i].id = out.req.task_id
       /\ table[i].status = "completed"
       /\ table[i].updated_at # << >>

\* C6: the ids drawn and the INSERTs attempted on behalf of one create
\* request are bounded by the allocator's max_attempts.
Inserts(p) == retries[p] + (IF pc[p] = "refresh" THEN 1 ELSE 0)
C6_BoundedAttempts ==
  \A p \in Procs : draws[p] <= max_attempts /\ Inserts(p) <= max_attempts

\* C7: every row of the table has 1000 <= id <= 99999.
C7_IdRange ==
  \A i \in DOMAIN table : 1000 <= table[i].id /\ table[i].id <= 99999
C7_Witness ==
  /\ \E i \in DOMAIN table : table[i].id = 1000
  /\ \E i \in DOMAIN table : table[i].id = 99999

\* C8: list(status=s) for s in {running, completed} answers 200 with exactly
\* the rows whose status is s, each once, and list() with every row.
Matches(r, f) == f = << >> \/ r.status = f[1]
C8_FilterExact ==
  [][Answered("list") /\ out'.req.status \in {<< >>, <<"running">>, <<"completed">>}
       => /\ out'.code = 200
          /\ \A i \in DOMAIN table :
               Matches(table[i], out'.req.status)
                 => Cardinality({k \in DOMAIN out'.rows : out'.rows[k] = table[i]}) = 1
          /\ \A k \in DOMAIN out'.rows :
               /\ Matches(out'.rows[k], out'.req.status)
               /\ \E i \in DOMAIN table : table[i] = out'.rows[k]
          /\ Len(out'.rows) =
               Cardinality({i \in DOMAIN table : Matches(table[i], out'.req.status)})]_vars
C8_Witness ==
  /\ out.req.kind = "list" /\ out.code = 200
  /\ out.req.status = <<"running">>
  /\ out.rows = << >>
  /\ \E i \in DOMAIN table : table[i].status = "completed"

\* C9: the rows list answers are in descending order of created_at.
C9_SortedDesc ==
  (out.req.kind = "list" /\ out.code = 200)
    => \A k \in 1..(Len(out.rows) - 1) :
         out.rows[k].created_at >= out.rows[k + 1].created_at
C9_Witness ==
  /\ out.req.kind = "list" /\ out.code = 200
  /\ Len(out.rows) = 2
  /\ out.rows[1].created_at > out.rows[2].created_at

\* C10: the INSERT of a create request appends exactly one row, built from
\* the request (priority 3 when none is given), with status running,
\* updated_at absent, created_at the time of the INSERT and an id no row
\* held, and changes no other row; the 201 response inserts nothing more
\* and carries the row stored under that id.
InsertsOneRow(p) ==
  LET b == req[p].body
      r == table'[Len(table')]
  IN /\ Len(table') = Len(table) + 1
     /\ SubSeq(table', 1, Len(table)) = table
     /\ r.id = pid[p]
     /\ \A i \in DOMAIN table : table[i].id # r.id
     /\ r.name = b.name[1] /\ r.owner = b.owner[1] /\ r.command = b.command[1]
     /\ r.priority = (IF b.priority = << >> THEN 3 ELSE b.priority[1])
     /\ r.status = "running"
     /\ r.updated_at = << >>
     /\ r.created_at = clock' /\ r.created_at >= clock
ReturnsStoredRow(p) ==
  LET b == req[p].body
      r == out'.rows[1]
  IN /\ out'.to = p /\ out'.req = req[p]
     /\ out'.code = 201
     /\ table' = table
     /\ Len(out'.rows) = 1
     /\ \E i \in DOMAIN table : table[i] = r
     /\ r.id = pid[p]
     /\ r.name = b.name[1] /\ r.owner = b.owner[1] /\ r.command = b.command[1]
     /\ r.priority = (IF b.priority = << >> THEN 3 ELSE b.priority[1])
     /\ r.created_at <= clock
\* The claim as stated: the returned row has status running and no updated_at.
C10_ReturnsRunningRow ==
  [][\A p \in Procs :
       /\ Inserted(p) => InsertsOneRow(p)
       /\ Refreshed(p) => /\ ReturnsStoredRow(p)
                          /\ out'.rows[1].status = "running"
                          /\ out'.rows[1].updated_at = << >>]_vars
\* Amended: the returned row is the row as stored when the response is built.
C10_CreateInsertsAndReturns ==
  [][\A p \in Procs :
       /\ Inserted(p) => InsertsOneRow(p)
       /\ Refreshed(p) => ReturnsStoredRow(p)
       /\ (out'.code = 201 /\ out'.to = p) => Refreshed(p)]_vars
C10_Witness ==
  /\ out.code = 201
  /\ out.req.body.priority = << >>
  /\ out.rows[1].priority = 3
  /\ out.rows[1].status = "completed"

\* The steps of complete_task at worker p: the commit that succeeds, the
\* refresh.
Updated(p) == pc[p] = "update" /\ pc'[p] = "reload"
Reloaded(p) == pc[p] = "reload" /\ pc'[p] = "idle"

\* The fields of a row that no operation is to change.
Identity(r) ==
  [id |-> r.id, name |-> r.name, priority |-> r.priority, owner |-> r.owner,
   command |-> r.command, created_at |-> r.created_at]

\* C11: a complete request that found its task running sets that task's
\* status to completed and its updated_at to the time it read, which is not
\* before created_at, and changes no other field and no other row; it then
\* answers 200 with the stored row.
C11_CompleteFrame ==
  [][\A p \in Procs :
       /\ Updated(p) =>
            /\ Len(table') = Len(table)
            /\ \A i \in DOMAIN table :
                 IF table[i].id = req[p].task_id
                   THEN /\ table'[i].status = "completed"
                        /\ table'[i].updated_at = << now[p] >>
                        /\ now[p] >= table[i].created_at /\ now[p] <= clock
                        /\ Identity(table'[i]) = Identity(table[i])
                   ELSE table'[i] = table[i]
       /\ Reloaded(p) =>
            /\ out'.to = p /\ out'.req = req[p] /\ out'.code = 200
            /\ table' = table
            /\ Len(out'.rows) = 1
            /\ out'.rows[1].id = req[p].task_id
            /\ out'.rows[1].status = "completed"
            /\ \E i \in DOMAIN table : table[i] = out'.rows[1]]_vars
C11_Witness ==
  /\ out.code = 200 /\ out.req.kind = "complete"
  /\ Len(table) = 2
  /\ \E i \in DOMAIN table :
       /\ table[i].id = out.req.task_id
       /\ table[i].status = "completed"
       /\ table[i].updated_at # << >>
  /\ \E i \in DOMAIN table :
       /\ table[i].id # out.req.task_id
       /\ table[i].status = "running"
       /\ table[i].updated_at = << >>

\* C12: a complete request whose id is the id of no row, inside or outside
\* [1000, 99999], answers 404 "Task not found" and leaves the table as it is.
C12_NotFound ==
  [][\A p \in Procs : \A tid \in TaskIdArgs :
       PatchArrives(p, tid) /\ ~Stored(table, tid)
       => /\ out'.to = p
          /\ out'.code = 404
          /\ out'.detail = "Task not found"
          /\ pc'[p] = "idle"
          /\ table' = table]_vars
C12_Witness ==
  /\ out.code = 404 /\ out.req.kind = "complete"
  /\ out.req.task_id > 99999
  /\ table # << >>

\* The step in which POST /tasks with body b arrives at worker p.
PostArrives(p, b) ==
  /\ pc[p] = "idle"
  /\ \/ pc'[p] = "insert" /\ req'[p].body = b
     \/ Answered("create") /\ out'.to = p /\ out'.req.body = b

HasEmptyString(b) == b.name = <<"">> \/ b.owner = <<"">> \/ b.command = <<"">>

\* C13: a create request whose name, owner or command is the empty string
\* is answered 422 on arrival, with no id allocated and no row inserted, so
\* no row has an empty name, owner or command.
C13_EmptyStringRejected ==
  /\ [][\A p \in Procs : \A b \in Bodies :
          PostArrives(p, b) /\ HasEmptyString(b)
          => /\ out'.to = p /\ out'.code = 422
             /\ pc'[p] = "idle" /\ pid'[p] = 0
             /\ table' = table]_vars
  /\ [](\A i \in DOMAIN table :
          table[i].name # "" /\ table[i].owner # "" /\ table[i].command # "")

\* C14: a create request whose priority is below 0 or above 5 is answered
\* 422 on arrival and leaves the table as it is, and every row has a
\* priority from 0 to 5.
C14_PriorityRange ==
  [] [/\ (\A p \in Procs : \A b \in Bodies :
          PostArrives(p, b) /\ b.priority # << >> /\ (b.priority[1] < 0 \/ b.priority[1] > 5)
          => /\ out'.to = p /\ out'.code = 422
             /\ pc'[p] = "idle"
             /\ table' = table)
       /\ \A i \in DOMAIN table' : 0 <= table'[i].priority /\ table'[i].priority <= 5]_vars
C14_Witness ==
  /\ out.code = 422 /\ out.req.kind = "create"
  /\ out.req.body.priority # << >>
  /\ out.req.body.priority[1] < 0
  /\ \E i \in DOMAIN table : table[i].priority = 0
  /\ \E i \in DOMAIN table : table[i].priority = 3

\* create_task is entered by p (on arrival or after a rejected INSERT) and
\* its allocator call returns or raises.
Allocates(p) ==
  \/ pc[p] = "idle" /\ pc'[p] = "insert"
  \/ pc[p] = "insert" /\ pc'[p] = "insert" /\ retries'[p] = retries[p] + 1
AllocationFails(p) ==
  /\ pc[p] \in {"idle", "insert"} /\ pc'[p] = "idle"
  /\ out'.to = p /\ out'.detail = "Unable to allocate unique PID"

\* The allocator's outcomes depend on the table's ids only, so they are
\* examined for the empty table and wherever a row has been added.
\* C15: one call of the allocator makes at most 5 draws; it returns a drawn
\* candidate the table does not hold, on the first draw when no candidate is
\* stored; it fails only after 5 draws that were all stored, and then the
\* create request is answered 500 and the table is unchanged.
C15_AllocatorContract ==
  [] [/\ (table = << >> \/ Len(table') > Len(table)) =>
          \A o \in GenerateUniquePid(table', max_attempts) :
            /\ 1 <= o.draws /\ o.draws <= 5
            /\ o.ok => /\ ~Stored(table', o.pid)
                       /\ 1000 <= o.pid /\ o.pid <= 99999
                       /\ o.draws > 1 => \E i \in DOMAIN table' :
                                           1000 <= table'[i].id /\ table'[i].id <= 99999
            /\ ~o.ok => /\ o.draws = 5
                        /\ \E i \in DOMAIN table' :
                             1000 <= table'[i].id /\ table'[i].id <= 99999
      /\ \A p \in Procs :
            /\ Allocates(p) => ~Stored(table, pid'[p])
            /\ AllocationFails(p) =>
                 /\ out'.code = 500 /\ out'.req.kind = "create"
                 /\ table' = table
                 /\ table # << >>]_vars
C15_Witness ==
  /\ out.code = 500 /\ out.detail = "Unable to allocate unique PID"
  /\ Len(table) = 1

\* C16: a worker's session is open exactly while that worker has a request
\* in flight, and belongs to that request: it is opened when the request
\* arrives, closed when the request is answered whatever the answer, and
\* changed by no other worker's step; with no request in flight no session
\* is open.
C16_SessionScoped ==
  [] [\A p \in Procs :
        /\ session'[p] = "open" <=> pc'[p] # "idle"
        /\ session'[p] = "open" => req'[p].kind # "none"
        /\ session'[p] # session[p] => pc'[p] # pc[p]
        /\ session[p] = "open" /\ session'[p] = "open" => req'[p] = req[p]
        /\ pc[p] # "idle" /\ pc'[p] = "idle" => out'.to = p /\ session'[p] = "closed"]_vars
C16_Witness ==
  /\ out.code = 500 /\ out.detail = "Database error"
  /\ table # << >>
  /\ \A p \in Procs : pc[p] = "idle" /\ session[p] = "closed"

\* C17: across every step each row stays in the table with its id, name,
\* priority, owner, command and created_at as they were, so the set of
\* stored ids only grows, and a row changes only in the committed UPDATE of
\* a complete request for that row's id.
C17_RowsKeptAndIdentityFixed ==
  [] [/\ Len(table') >= Len(table)
      /\ {table[i].id : i \in DOMAIN table} \subseteq {table'[i].id : i \in DOMAIN table'}
      /\ \A i \in DOMAIN table :
           /\ Identity(table'[i]) = Identity(table[i])
           /\ table'[i] # table[i] =>
                \E p \in Procs : /\ Updated(p)
                                 /\ req[p].kind = "complete"
                                 /\ req[p].task_id = table[i].id]_vars
C17_Witness ==
  /\ Len(table) = 2
  /\ table[1].status = "completed" /\ table[1].created_at < table[1].updated_at[1]
  /\ table[2].id # table[1].id

\* The commit of p's create or complete request fails.
CommitFails(p) ==
  /\ pc[p] \in {"insert", "update"} /\ pc'[p] = "idle"
  /\ out'.to = p /\ out'.detail = "Database error"

\* C18: a create or complete request whose commit fails is answered 500 and
\* has changed nothing: the failing step leaves the table as it is, and no
\* step other than a commit that succeeds changes the table, so the request
\* added no row and changed no status or updated_at.
C18_FailedCommitChangesNothing ==
  [] [/\ \A p \in Procs :
           /\ CommitFails(p) =>
                /\ out'.code = 500
                /\ out'.req = req[p] /\ req[p].kind \in {"create", "complete"}
                /\ table' = table
           /\ pc[p] = "update" /\ pc'[p] = "idle" => CommitFails(p)
           /\ pc[p] = "insert" /\ pc'[p] = "idle" => out'.to = p /\ out'.code = 500
      /\ table' # table => \E q \in Procs : Inserted(q) \/ Updated(q)]_vars
C18_Witness ==
  /\ out.code = 500 /\ out.detail = "Database error"
  /\ out.req.kind = "complete"
  /\ \E i \in DOMAIN table :
       /\ table[i].id = out.req.task_id
       /\ table[i].status = "running" /\ table[i].updated_at = << >>

\* C19: in every reachable state every row's status is running or
\* completed, and its updated_at is absent exactly when the status is
\* running and present exactly when it is completed.
C19_UpdatedAtIffCompleted ==
  \A i \in DOMAIN table :
    /\ table[i].status \in {"running", "completed"}
    /\ table[i].updated_at = << >> <=> table[i].status = "running"
    /\ Len(table[i].updated_at) = 1 <=> table[i].status = "completed"
C19_Witness ==
  \E i, j \in DOMAIN table :
    /\ table[i].status = "running" /\ table[i].updated_at = << >>
    /\ table[j].status = "completed" /\ table[j].updated_at # << >>
====
